---- MODULE Spec2Model ----
(***************************************************************************)
(* Order creation, payment recording and status updates of the Wool Witch  *)
(* storefront, as implemented by the SQL functions of the woolwitch_api    *)
(* schema.                                                                 *)
(*                                                                         *)
(* Money is numeric(10,2) in the tables; it is modelled in pence, so the   *)
(* 0.01 tolerance of the code is 1.  A nullable numeric is <<>> (NULL) or  *)
(* <<v>>; a nullable uuid is NULL or the identifier.                       *)
(*                                                                         *)
(* create_order is a plpgsql function running under READ COMMITTED: each   *)
(* of its statements sees the catalog as committed when that statement     *)
(* starts, so it is modelled statement by statement, with catalog writes   *)
(* interleaving; its own inserts become visible at commit.  The other      *)
(* functions are single short transactions on committed rows that          *)
(* create_order neither reads nor writes, so they are modelled as atomic   *)
(* steps taken while no create_order is in flight.                         *)
(*                                                                         *)
(* createOrder of the order service (TypeScript) awaits its RPCs one after *)
(* the other; each RPC is a transaction of its own.                        *)
(***************************************************************************)
EXTENDS Integers, Sequences, FiniteSets, TLC

VARIABLES
  products,      \* woolwitch.products: product id -> row, or NoRow once deleted
  orders,        \* woolwitch.orders, committed rows; an order's id is its index
  order_items,   \* woolwitch.order_items, committed rows
  payments,      \* woolwitch.payments, committed rows; a payment's id is its index
  audit_log,     \* woolwitch.audit_log, committed rows
  audit_writable,\* whether an INSERT INTO woolwitch.audit_log succeeds
  now,           \* now(), in units of half an hour
  call,          \* the API call in progress, or the last one that returned
  svc            \* the createOrder of the service layer in progress, or the last one

vars ==
  <<products, orders, order_items, payments, audit_log, audit_writable, now, call, svc>>

----------------------------------------------------------------------------
(* Bounds of the model *)

MaxOrders == 1
MaxPayments == 1
MaxCartLen == 2
MaxTime == 2
MaxCatalogWrites == 1

----------------------------------------------------------------------------
(* Values *)

NULL == "NULL"

NoRow == [price |-> -1, delivery_charge |-> <<>>, is_available |-> FALSE, name |-> NULL]

\* auth.users / woolwitch.user_roles: the identities that may call, NULL is
\* the anonymous caller (auth.uid() IS NULL)
user_roles == { [user_id |-> "u1", role |-> "user"],
                [user_id |-> "admin", role |-> "admin"] }

Callers == {NULL} \cup { r.user_id : r \in user_roles }

OrderStatuses == {"pending", "paid", "shipped", "delivered", "cancelled"}

PaymentStatuses == {"pending", "completed", "failed", "refunded"}

\* ABS(x)
Abs(x) == IF x < 0 THEN -x ELSE x

\* COALESCE(v, d) for a nullable numeric
Coalesce(v, d) == IF v = <<>> THEN d ELSE v[1]

\* 0.01, in pence
Tolerance == 1

\* woolwitch.is_admin(): EXISTS (SELECT 1 FROM user_roles WHERE user_id =
\* auth.uid() AND role = 'admin'); no row matches a NULL auth.uid()
is_admin(caller) ==
  \E r \in user_roles : caller # NULL /\ r.user_id = caller /\ r.role = "admin"

\* SQL three-valued logic: "T", "F" or "U" (unknown, NULL)
SqlEq(a, b) == IF a = NULL \/ b = NULL THEN "U" ELSE IF a = b THEN "T" ELSE "F"

SqlIsNull(a) == IF a = NULL THEN "T" ELSE "F"

SqlBool(b) == IF b THEN "T" ELSE "F"

SqlOr(a, b) ==
  IF a = "T" \/ b = "T" THEN "T" ELSE IF a = "F" /\ b = "F" THEN "F" ELSE "U"

SqlAnd(a, b) ==
  IF a = "F" \/ b = "F" THEN "F" ELSE IF a = "T" /\ b = "T" THEN "T" ELSE "U"

SqlNot(a) == IF a = "T" THEN "F" ELSE IF a = "F" THEN "T" ELSE "U"

\* plpgsql IF: the branch is taken only when the condition is true
SqlIf(a) == a = "T"

\* the sum of product_price * quantity, and of delivery_charge * quantity,
\* over line items
RECURSIVE SumPrices(_)
SumPrices(items) ==
  IF items = <<>> THEN 0
  ELSE Head(items).product_price * Head(items).quantity + SumPrices(Tail(items))

RECURSIVE SumDelivery(_)
SumDelivery(items) ==
  IF items = <<>> THEN 0
  ELSE Head(items).delivery_charge * Head(items).quantity + SumDelivery(Tail(items))

----------------------------------------------------------------------------
(* The catalog and the requests the callers make *)

ProductIds == {"p1", "p2"}

\* the catalog as first deployed: a scarf at 20.00 with 3.99 delivery, a hat
\* at 15.50 whose delivery_charge is NULL
InitialProducts ==
  [ p \in ProductIds |->
      IF p = "p1"
      THEN [price |-> 2000, delivery_charge |-> <<399>>, is_available |-> TRUE,
            name |-> "Scarf"]
      ELSE [price |-> 1550, delivery_charge |-> <<>>, is_available |-> TRUE,
            name |-> "Hat"] ]

\* the edits an admin makes with update_product: a price rise, a delivery
\* charge set to NULL, a product withdrawn from sale
ProductEdits ==
  { [price |-> 2500, delivery_charge |-> <<399>>, is_available |-> TRUE],
    [price |-> 2000, delivery_charge |-> <<>>, is_available |-> TRUE],
    [price |-> 2000, delivery_charge |-> <<399>>, is_available |-> FALSE] }

\* cart lines as the client submits them in p_order_items; product_price and
\* delivery_charge are the client's own figures, "p9" is no product
CartLines ==
  { [product_id |-> "p1", product_name |-> "Scarf", product_price |-> 2000,
     quantity |-> 1, delivery_charge |-> 399],
    [product_id |-> "p2", product_name |-> "Hat", product_price |-> 100,
     quantity |-> 2, delivery_charge |-> 50],
    [product_id |-> "p9", product_name |-> "Ghost", product_price |-> 500,
     quantity |-> 1, delivery_charge |-> 0] }

Carts == UNION { [1..n -> CartLines] : n \in 0..MaxCartLen }

\* how far the claimed <<subtotal, delivery total, total>> are from the
\* figures of the catalog the client saw: exact, within the tolerance, each
\* of the three alone out of tolerance, and a subtotal understated by 19.00
ClaimDeltas ==
  { <<0, 0, 0>>, <<1, -1, 0>>, <<2, 0, 0>>, <<0, -2, 0>>, <<0, 0, 2>>,
    <<-1900, 0, -1900>> }

\* SELECT price, delivery_charge, is_available INTO ... FROM woolwitch.products
\* WHERE id = pid: the variables are NULL when no row matches
SelectProduct(pid) ==
  IF pid \in DOMAIN products /\ products[pid] # NoRow
  THEN [price |-> <<products[pid].price>>,
        delivery_charge |-> products[pid].delivery_charge,
        is_available |-> products[pid].is_available]
  ELSE [price |-> <<>>, delivery_charge |-> <<>>, is_available |-> FALSE]

\* the totals a client works out for its cart from the catalog it is shown,
\* and from its own figures for a product it is not shown
RECURSIVE ShownSubtotal(_)
ShownSubtotal(cart) ==
  IF cart = <<>> THEN 0
  ELSE LET l == Head(cart)
           r == SelectProduct(l.product_id)
       IN  (IF r.price = <<>> THEN l.product_price ELSE r.price[1]) * l.quantity
           + ShownSubtotal(Tail(cart))

RECURSIVE ShownDelivery(_)
ShownDelivery(cart) ==
  IF cart = <<>> THEN 0
  ELSE LET l == Head(cart)
           r == SelectProduct(l.product_id)
       IN  (IF r.price = <<>> THEN l.delivery_charge
            ELSE Coalesce(r.delivery_charge, 0)) * l.quantity
           + ShownDelivery(Tail(cart))

----------------------------------------------------------------------------
(* State after the migrations have run *)

NoCall == [op |-> "none", pc |-> "done", caller |-> NULL, result |-> "none", id |-> 0]

\* no createOrder of the service layer was called yet
NoService ==
  [pc |-> "idle", caller |-> NULL, cartItems |-> <<>>, paymentMethod |-> NULL,
   paymentId |-> NULL, total |-> 0, orderId |-> 0, error |-> "none"]

Init ==
  /\ svc = NoService
  /\ products = InitialProducts
  /\ orders = <<>>
  /\ order_items = <<>>
  /\ payments = <<>>
  /\ audit_log = <<>>
  /\ audit_writable = TRUE
  /\ now = 0
  /\ call = NoCall

\* no create_order is between its first statement and its commit
Idle == call.pc = "done"

----------------------------------------------------------------------------
(* woolwitch_api.create_order *)

\* mutant: the rows written before the error stay, as if each statement
\* committed on its own
RaiseKeepingRows(error) ==
  /\ call' = [call EXCEPT !.pc = "done", !.result = error,
                          !.order = <<>>, !.items = <<>>, !.audit = <<>>]
  /\ orders' = orders \o call.order
  /\ order_items' = order_items \o
       [k \in 1..Len(call.items) |->
          [order_id |-> Len(orders) + 1] @@ call.items[k]]
  /\ UNCHANGED <<svc, audit_writable, products, payments, audit_log, now>>

\* RAISE EXCEPTION, or a constraint violation: the function's transaction
\* rolls back, its uncommitted rows are gone
Raise(error) ==
  /\ call' = [call EXCEPT !.pc = "done", !.result = error,
                          !.order = <<>>, !.items = <<>>, !.audit = <<>>]
  /\ UNCHANGED <<svc, audit_writable, products, orders, order_items, payments, audit_log, now>>

\* create_order as it starts for its arguments: v_user_id := auth.uid(), the
\* running totals are 0
CreateOrderCall(caller, cart, p_subtotal, p_delivery_total, p_total) ==
  [op |-> "create_order", pc |-> "validate", caller |-> caller,
   result |-> "none", id |-> 0,
   cart |-> cart,
   p_subtotal |-> p_subtotal,
   p_delivery_total |-> p_delivery_total,
   p_total |-> p_total,
   v_user_id |-> caller,
   i |-> 1,
   v_calculated_subtotal |-> 0,
   v_calculated_delivery |-> 0,
   order |-> <<>>, items |-> <<>>, audit |-> <<>>]

\* the call arrives
BeginCreateOrder(caller, cap) ==
  /\ Idle
  /\ Len(orders) < cap
  /\ \E cart \in Carts, d \in ClaimDeltas :
       call' = CreateOrderCall(caller, cart,
                               ShownSubtotal(cart) + d[1],
                               ShownDelivery(cart) + d[2],
                               ShownSubtotal(cart) + ShownDelivery(cart) + d[3])
  /\ UNCHANGED <<svc, audit_writable, products, orders, order_items, payments, audit_log, now>>

\* mutant: the availability of the product is not looked at
ProductCheckExistenceOnly(row) ==
  IF row.price = <<>> THEN "product_not_found" ELSE "ok"

\* IF v_product_price IS NULL ... IF NOT v_product_available ...: the error the
\* validation loop raises for the product row it read, or "ok"
ProductCheck(row) ==
  IF row.price = <<>> THEN "product_not_found"
  ELSE IF ~row.is_available THEN "product_unavailable"
  ELSE "ok"

\* one iteration of the validation loop: read the product of line i, raise if
\* it is missing or not available, else add to the running totals
ValidateItem ==
  /\ call.pc = "validate"
  /\ call.i <= Len(call.cart)
  /\ LET v_item == call.cart[call.i]
         row == SelectProduct(v_item.product_id)
     IN  IF ProductCheck(row) # "ok"
         THEN Raise(ProductCheck(row))
         ELSE
           /\ call' = [call EXCEPT
                 !.i = @ + 1,
                 !.v_calculated_subtotal = @ + row.price[1] * v_item.quantity,
                 !.v_calculated_delivery =
                     @ + Coalesce(row.delivery_charge, 0) * v_item.quantity]
           /\ UNCHANGED <<svc, audit_writable, products, orders, order_items, payments, audit_log, now>>

\* mutant: the comparison of the total is left out
TotalsMismatchNoTotal(c) ==
  \/ Abs(c.v_calculated_subtotal - c.p_subtotal) > Tolerance
  \/ Abs(c.v_calculated_delivery - c.p_delivery_total) > Tolerance

\* the three comparisons of the submitted totals with the calculated ones
TotalsMismatch(c) ==
  \/ Abs(c.v_calculated_subtotal - c.p_subtotal) > Tolerance
  \/ Abs(c.v_calculated_delivery - c.p_delivery_total) > Tolerance
  \/ Abs((c.v_calculated_subtotal + c.v_calculated_delivery) - c.p_total) > Tolerance

\* mutant: the order is written with the submitted totals, as before the
\* security fix
NewOrderRowClaimed(c) ==
  [user_id |-> c.v_user_id,
   subtotal |-> c.p_subtotal,
   delivery_total |-> c.p_delivery_total,
   total |-> c.p_total,
   status |-> "pending",
   created_at |-> now]

\* mutant: the order is written without its user
NewOrderRowNoUser(c) ==
  [user_id |-> NULL,
   subtotal |-> c.v_calculated_subtotal,
   delivery_total |-> c.v_calculated_delivery,
   total |-> c.v_calculated_subtotal + c.v_calculated_delivery,
   status |-> "pending",
   created_at |-> now]

\* the row INSERT INTO woolwitch.orders writes
NewOrderRow(c) ==
  [user_id |-> c.v_user_id,
   subtotal |-> c.v_calculated_subtotal,
   delivery_total |-> c.v_calculated_delivery,
   total |-> c.v_calculated_subtotal + c.v_calculated_delivery,
   status |-> "pending",
   created_at |-> now]

\* CHECK (subtotal >= 0), CHECK (delivery_total >= 0), CHECK (total >= 0)
OrderChecksHold(o) == o.subtotal >= 0 /\ o.delivery_total >= 0 /\ o.total >= 0

\* mutant: the anonymous flag is computed from the wrong side
AuditRowFlagInverted(o) ==
  [event_type |-> "order_created", table_name |-> "orders",
   user_id |-> o.user_id, total |-> o.total,
   is_anonymous |-> (o.user_id # NULL)]

\* woolwitch.log_order_creation(), the AFTER INSERT trigger on orders
AuditRow(o) ==
  [event_type |-> "order_created", table_name |-> "orders",
   user_id |-> o.user_id, total |-> o.total,
   is_anonymous |-> (o.user_id = NULL)]

\* the outcome of the AFTER INSERT trigger log_order_after_insert: the function
\* has no EXCEPTION block, an error of its INSERT is the error of the statement
\* that fired it
AuditTriggerResult == IF audit_writable THEN "ok" ELSE "audit_failure"

\* after the loop: compare the totals, then insert the order row; its trigger
\* writes the audit row in the same transaction
InsertOrder ==
  /\ call.pc = "validate"
  /\ call.i > Len(call.cart)
  /\ IF TotalsMismatch(call)
     THEN Raise("total_mismatch")
     ELSE IF ~OrderChecksHold(NewOrderRow(call))
     THEN Raise("check_violation")
     ELSE IF AuditTriggerResult # "ok"
     THEN Raise(AuditTriggerResult)
     ELSE
       /\ call' = [call EXCEPT !.pc = "items", !.i = 1,
                               !.order = <<NewOrderRow(call)>>,
                               !.audit = <<AuditRow(NewOrderRow(call))>>]
       /\ UNCHANGED <<svc, audit_writable, products, orders, order_items, payments, audit_log, now>>

\* mutant: the item is written with the client's figures, as before the
\* security fix
NewItemRowFromClient(v_item, row) ==
  [product_id |-> v_item.product_id,
   product_name |-> v_item.product_name,
   product_price |-> <<v_item.product_price>>,
   quantity |-> v_item.quantity,
   delivery_charge |-> v_item.delivery_charge]

\* the row INSERT INTO woolwitch.order_items writes for a cart line, from the
\* product row read again
NewItemRow(v_item, row) ==
  [product_id |-> v_item.product_id,
   product_name |-> v_item.product_name,
   product_price |-> row.price,
   quantity |-> v_item.quantity,
   delivery_charge |-> Coalesce(row.delivery_charge, 0)]

\* mutant: the table has no CHECK on quantity
ItemChecksHoldPriceOnly(it) == it.product_price # <<>>

\* product_price NOT NULL, CHECK (quantity > 0); the foreign key on product_id
\* holds when the price was found
ItemChecksHold(it) == it.product_price # <<>> /\ it.quantity > 0

\* mutant: after the last line the prices written are compared with the
\* subtotal calculated before, and a difference raises
InsertItemGuarded ==
  /\ call.pc = "items"
  /\ call.i <= Len(call.cart)
  /\ LET v_item == call.cart[call.i]
         it == NewItemRow(v_item, SelectProduct(v_item.product_id))
     IN  IF ~ItemChecksHold(it)
         THEN Raise("constraint_violation")
         ELSE IF /\ call.i = Len(call.cart)
                 /\ SumPrices(Append(call.items, [it EXCEPT !.product_price = @[1]]))
                      # call.v_calculated_subtotal
         THEN Raise("price_changed")
         ELSE
           /\ call' = [call EXCEPT
                 !.i = @ + 1,
                 !.items = Append(@, [it EXCEPT !.product_price = @[1]])]
           /\ UNCHANGED <<svc, audit_writable, products, orders, order_items, payments, audit_log, now>>

\* one iteration of the second loop: read the product of line i again and
\* insert its order item
InsertItem ==
  /\ call.pc = "items"
  /\ call.i <= Len(call.cart)
  /\ LET v_item == call.cart[call.i]
         it == NewItemRow(v_item, SelectProduct(v_item.product_id))
     IN  IF ~ItemChecksHold(it)
         THEN Raise("constraint_violation")
         ELSE
           /\ call' = [call EXCEPT
                 !.i = @ + 1,
                 !.items = Append(@, [it EXCEPT !.product_price = @[1]])]
           /\ UNCHANGED <<svc, audit_writable, products, orders, order_items, payments, audit_log, now>>

\* RETURN v_order_id: the transaction commits, the order, its items and its
\* audit row become visible together
Commit ==
  /\ call.pc = "items"
  /\ call.i > Len(call.cart)
  /\ LET v_order_id == Len(orders) + 1 IN
       /\ orders' = Append(orders, call.order[1])
       /\ order_items' = order_items \o
            [k \in 1..Len(call.items) |->
               [order_id |-> v_order_id] @@ call.items[k]]
       /\ audit_log' = Append(audit_log, [record_id |-> v_order_id] @@ call.audit[1])
       /\ call' = [call EXCEPT !.pc = "done", !.result = "ok", !.id = v_order_id,
                               !.order = <<>>, !.items = <<>>, !.audit = <<>>]
  /\ UNCHANGED <<svc, audit_writable, products, payments, now>>

CreateOrderStep == ValidateItem \/ InsertOrder \/ InsertItem \/ Commit

----------------------------------------------------------------------------
(* woolwitch_api.create_payment *)

\* how far the submitted amount is from the order's total
AmountDeltas == {0, 1, -2}

\* SELECT total, user_id INTO v_order_total, v_order_user_id FROM
\* woolwitch.orders WHERE id = p_order_id
SelectOrder(p_order_id) ==
  IF p_order_id \in 1..Len(orders)
  THEN [total |-> <<orders[p_order_id].total>>, user_id |-> orders[p_order_id].user_id]
  ELSE [total |-> <<>>, user_id |-> NULL]

\* NOT (v_order_user_id = auth.uid() OR v_order_user_id IS NULL OR is_admin())
AccessDenied(caller, v_order_user_id) ==
  SqlIf(SqlNot(SqlOr(SqlOr(SqlEq(v_order_user_id, caller),
                           SqlIsNull(v_order_user_id)),
                     SqlBool(is_admin(caller)))))

\* mutant: any caller may set any status, as before the security fix
StatusForbiddenNever(caller, p_status) == FALSE

\* p_status != 'pending' AND NOT is_admin()
StatusForbidden(caller, p_status) ==
  SqlIf(SqlAnd(SqlNot(SqlEq(p_status, "pending")), SqlNot(SqlBool(is_admin(caller)))))

\* mutant: the amount is not compared with the order's total, as before the
\* security fix
CreatePaymentResultNoAmount(caller, p_order_id, p_amount, p_status) ==
  LET o == SelectOrder(p_order_id) IN
    IF o.total = <<>> THEN "order_not_found"
    ELSE IF AccessDenied(caller, o.user_id) THEN "access_denied"
    ELSE IF StatusForbidden(caller, p_status) THEN "forbidden"
    ELSE "ok"

\* the checks of create_payment in their order: the error raised, or "ok"
CreatePaymentResult(caller, p_order_id, p_amount, p_status) ==
  LET o == SelectOrder(p_order_id) IN
    IF o.total = <<>> THEN "order_not_found"
    ELSE IF AccessDenied(caller, o.user_id) THEN "access_denied"
    ELSE IF Abs(p_amount - o.total[1]) > Tolerance THEN "amount_mismatch"
    ELSE IF StatusForbidden(caller, p_status) THEN "forbidden"
    ELSE "ok"

\* mutant: the payment is written with the submitted amount, as before the
\* security fix
NewPaymentRowSubmitted(p_order_id, p_amount, p_status) ==
  [order_id |-> p_order_id,
   status |-> p_status,
   amount |-> p_amount]

\* the row INSERT INTO woolwitch.payments writes: v_order_total is stored,
\* p_amount is not
NewPaymentRow(p_order_id, p_amount, p_status) ==
  [order_id |-> p_order_id,
   status |-> p_status,
   amount |-> SelectOrder(p_order_id).total[1]]

\* create_payment for its arguments: the payment is inserted when no check
\* raises
CreatePaymentCall(caller, p_order_id, p_amount, p_status) ==
  LET result == CreatePaymentResult(caller, p_order_id, p_amount, p_status) IN
    /\ payments' = IF result = "ok"
                   THEN Append(payments, NewPaymentRow(p_order_id, p_amount, p_status))
                   ELSE payments
    /\ call' = [op |-> "create_payment", pc |-> "done", caller |-> caller,
                result |-> result,
                id |-> IF result = "ok" THEN Len(payments) + 1 ELSE 0,
                p_order_id |-> p_order_id, p_amount |-> p_amount,
                p_status |-> p_status]

\* mutant: a payment created as completed marks its order paid
CreatePaymentCascading(caller) ==
  /\ Idle
  /\ Len(payments) < MaxPayments
  /\ \E p_order_id \in 1..MaxOrders, d \in AmountDeltas, p_status \in PaymentStatuses :
       LET p_amount == Coalesce(SelectOrder(p_order_id).total, 0) + d IN
         /\ CreatePaymentCall(caller, p_order_id, p_amount, p_status)
         /\ orders' = IF /\ CreatePaymentResult(caller, p_order_id, p_amount, p_status) = "ok"
                         /\ p_status = "completed"
                      THEN [orders EXCEPT ![p_order_id].status = "paid"]
                      ELSE orders
  /\ UNCHANGED <<svc, audit_writable, products, order_items, audit_log, now>>

CreatePayment(caller) ==
  /\ Idle
  /\ Len(payments) < MaxPayments
  /\ \E p_order_id \in 1..MaxOrders, d \in AmountDeltas, p_status \in PaymentStatuses :
       CreatePaymentCall(caller, p_order_id,
                         Coalesce(SelectOrder(p_order_id).total, 0) + d, p_status)
  /\ UNCHANGED <<svc, audit_writable, products, orders, order_items, audit_log, now>>

----------------------------------------------------------------------------
(* woolwitch_api.update_order_status, woolwitch_api.update_payment_status *)

\* mutant: the admin check is left out
AdminRequiredNever(caller) == "ok"

\* mutant: any signed-in caller passes
AdminRequiredSignedIn(caller) == IF caller = NULL THEN "forbidden" ELSE "ok"

\* IF NOT woolwitch.is_admin() THEN RAISE EXCEPTION ...: the error raised for
\* the caller, or "ok"
AdminRequired(caller) == IF ~is_admin(caller) THEN "forbidden" ELSE "ok"

\* UPDATE woolwitch.orders SET status = p_status WHERE id = p_order_id
SetOrderStatus(os, p_order_id, p_status) ==
  [k \in 1..Len(os) |->
     IF k = p_order_id THEN [os[k] EXCEPT !.status = p_status] ELSE os[k]]

UpdateOrderStatus(caller) ==
  /\ Idle
  /\ \E p_order_id \in 1..MaxOrders, p_status \in OrderStatuses :
       LET result == AdminRequired(caller) IN
         /\ orders' = IF result = "ok"
                      THEN SetOrderStatus(orders, p_order_id, p_status)
                      ELSE orders
         /\ call' = [op |-> "update_order_status", pc |-> "done", caller |-> caller,
                     result |-> result, id |-> p_order_id, p_status |-> p_status]
  /\ UNCHANGED <<svc, audit_writable, products, order_items, payments, audit_log, now>>

\* UPDATE woolwitch.payments SET status = p_status WHERE id = p_payment_id
SetPaymentStatus(ps, p_payment_id, p_status) ==
  [k \in 1..Len(ps) |->
     IF k = p_payment_id THEN [ps[k] EXCEPT !.status = p_status] ELSE ps[k]]

\* mutant: the order is left as it is
CascadeToOrderNever(os, ps, p_payment_id, p_status) == os

\* IF p_status = 'completed' THEN UPDATE woolwitch.orders SET status = 'paid'
\* WHERE id = (SELECT order_id FROM woolwitch.payments WHERE id = p_payment_id)
CascadeToOrder(os, ps, p_payment_id, p_status) ==
  IF p_status = "completed" /\ p_payment_id \in 1..Len(ps)
  THEN SetOrderStatus(os, ps[p_payment_id].order_id, "paid")
  ELSE os

UpdatePaymentStatus(caller) ==
  /\ Idle
  /\ \E p_payment_id \in 1..MaxPayments, p_status \in PaymentStatuses :
       LET result == AdminRequired(caller) IN
         /\ payments' = IF result = "ok"
                        THEN SetPaymentStatus(payments, p_payment_id, p_status)
                        ELSE payments
         /\ orders' = IF result = "ok"
                      THEN CascadeToOrder(orders, payments', p_payment_id, p_status)
                      ELSE orders
         /\ call' = [op |-> "update_payment_status", pc |-> "done", caller |-> caller,
                     result |-> result, id |-> p_payment_id, p_status |-> p_status]
  /\ UNCHANGED <<svc, audit_writable, products, order_items, audit_log, now>>

----------------------------------------------------------------------------
(* woolwitch_api.get_order_items *)

\* mutant: an order without a user is readable by anyone, as it is payable by
\* anyone in create_payment
OrderReadableOrAnonymous(caller, p_order_id) ==
  /\ p_order_id \in 1..Len(orders)
  /\ SqlIf(SqlOr(SqlOr(SqlEq(orders[p_order_id].user_id, caller),
                       SqlIsNull(orders[p_order_id].user_id)),
                 SqlBool(is_admin(caller))))

\* EXISTS (SELECT 1 FROM woolwitch.orders o WHERE o.id = p_order_id AND
\* (o.user_id = auth.uid() OR woolwitch.is_admin())): a row qualifies only when
\* the condition is true
OrderReadable(caller, p_order_id) ==
  /\ p_order_id \in 1..Len(orders)
  /\ SqlIf(SqlOr(SqlEq(orders[p_order_id].user_id, caller),
                 SqlBool(is_admin(caller))))

\* SELECT ... FROM woolwitch.order_items oi WHERE oi.order_id = p_order_id
\* ORDER BY oi.created_at; the items of an order share their created_at, they
\* are returned here as inserted
SelectOrderItems(p_order_id) ==
  SelectSeq(order_items, LAMBDA it : it.order_id = p_order_id)

GetOrderItems(caller) ==
  /\ Idle
  /\ \E p_order_id \in 1..MaxOrders :
       LET result == IF OrderReadable(caller, p_order_id)
                     THEN "ok" ELSE "not_found_or_denied"
       IN  call' = [op |-> "get_order_items", pc |-> "done", caller |-> caller,
                    result |-> result, id |-> p_order_id,
                    rows |-> IF result = "ok"
                             THEN SelectOrderItems(p_order_id) ELSE <<>>]
  /\ UNCHANGED <<svc, audit_writable, products, orders, order_items, payments, audit_log, now>>

----------------------------------------------------------------------------
(* woolwitch_api.get_order_by_id, get_user_orders, get_all_orders *)

\* an order row as the functions return it, with its id
OrderRow(k) == [id |-> k] @@ orders[k]

\* get_order_by_id for its argument: SELECT ... FROM woolwitch.orders o WHERE
\* o.id = p_order_id AND (o.user_id = auth.uid() OR woolwitch.is_admin()); no
\* row is no error
GetOrderByIdCall(caller, p_order_id) ==
  [op |-> "get_order_by_id", pc |-> "done", caller |-> caller,
   result |-> "ok", id |-> p_order_id,
   rows |-> IF OrderReadable(caller, p_order_id)
            THEN <<OrderRow(p_order_id)>> ELSE <<>>]

GetOrderById(caller) ==
  /\ Idle
  /\ \E p_order_id \in 1..MaxOrders : call' = GetOrderByIdCall(caller, p_order_id)
  /\ UNCHANGED <<svc, audit_writable, products, orders, order_items, payments, audit_log, now>>

\* SELECT ... FROM woolwitch.orders o WHERE o.user_id = auth.uid() ORDER BY
\* o.created_at DESC LIMIT p_limit, p_limit above the number of orders
OwnOrders(caller) ==
  LET mine == SelectSeq([k \in 1..Len(orders) |-> OrderRow(k)],
                        LAMBDA o : SqlIf(SqlEq(o.user_id, caller)))
  IN  [n \in 1..Len(mine) |-> mine[Len(mine) + 1 - n]]

GetUserOrders(caller) ==
  /\ Idle
  /\ call' = [op |-> "get_user_orders", pc |-> "done", caller |-> caller,
              result |-> "ok", id |-> 0, rows |-> OwnOrders(caller)]
  /\ UNCHANGED <<svc, audit_writable, products, orders, order_items, payments, audit_log, now>>

\* SELECT ... FROM woolwitch.orders o WHERE (p_status IS NULL OR o.status =
\* p_status) ORDER BY o.created_at DESC
AllOrders(p_status) ==
  LET hits == SelectSeq([k \in 1..Len(orders) |-> OrderRow(k)],
                        LAMBDA o : p_status = NULL \/ o.status = p_status)
  IN  [n \in 1..Len(hits) |-> hits[Len(hits) + 1 - n]]

\* the admin check, then the query; p_status is NULL or a status to filter by
GetAllOrders(caller) ==
  /\ Idle
  /\ \E p_status \in {NULL, "pending"} :
       LET result == AdminRequired(caller) IN
         call' = [op |-> "get_all_orders", pc |-> "done", caller |-> caller,
                  result |-> result, id |-> 0, p_status |-> p_status,
                  rows |-> IF result = "ok" THEN AllOrders(p_status) ELSE <<>>]
  /\ UNCHANGED <<svc, audit_writable, products, orders, order_items, payments, audit_log, now>>

----------------------------------------------------------------------------
(* woolwitch_api.update_product, woolwitch_api.delete_product: admin only,   *)
(* a call by anyone else raises and changes nothing                         *)

\* the products written since deployment
CatalogWrites == Cardinality({ p \in ProductIds : products[p] # InitialProducts[p] })

UpdateProduct(caller) ==
  /\ is_admin(caller)
  /\ CatalogWrites < MaxCatalogWrites
  /\ \E p_product_id \in ProductIds, e \in ProductEdits :
       /\ products[p_product_id] # NoRow
       /\ products' = [products EXCEPT ![p_product_id] =
            [price |-> e.price, delivery_charge |-> e.delivery_charge,
             is_available |-> e.is_available, name |-> @.name]]
       /\ products' # products
  /\ UNCHANGED <<svc, audit_writable, orders, order_items, payments, audit_log, now, call>>

\* mutant: the foreign key is declared ON DELETE CASCADE
SetProductIdNullCascade(items, p_product_id) ==
  SelectSeq(items, LAMBDA it : it.product_id # p_product_id)

\* order_items.product_id REFERENCES products(id) ON DELETE SET NULL
SetProductIdNull(items, p_product_id) ==
  [k \in 1..Len(items) |->
     IF items[k].product_id = p_product_id
     THEN [items[k] EXCEPT !.product_id = NULL]
     ELSE items[k]]

\* the delete waits for a create_order that has inserted an item of the
\* product and not yet committed (the item's foreign key locks the product row)
DeleteProduct(caller) ==
  /\ is_admin(caller)
  /\ CatalogWrites < MaxCatalogWrites
  /\ \E p_product_id \in ProductIds :
       /\ products[p_product_id] # NoRow
       /\ call.pc = "items" =>
            \A k \in 1..Len(call.items) : call.items[k].product_id # p_product_id
       /\ products' = [products EXCEPT ![p_product_id] = NoRow]
       /\ order_items' = SetProductIdNull(order_items, p_product_id)
  /\ UNCHANGED <<svc, audit_writable, orders, payments, audit_log, now, call>>

----------------------------------------------------------------------------
(* woolwitch.check_order_rate_limit *)

\* interval '1 hour', in half hours
OneHour == 2

\* the ceiling of anonymous orders per hour
RateLimitCeiling == 50

\* SELECT COUNT(*) FROM woolwitch.orders WHERE created_at > (now() - interval
\* '1 hour') AND user_id IS NULL
RecentAnonymousOrders(os, at) ==
  Cardinality({ k \in 1..Len(os) :
                  os[k].created_at > at - OneHour /\ os[k].user_id = NULL })

\* mutant: the ceiling itself is still allowed
check_order_rate_limit_above(caller) ==
  IF caller # NULL THEN "ok"
  ELSE IF RecentAnonymousOrders(orders, now) > RateLimitCeiling
  THEN "rate_limit_exceeded"
  ELSE "ok"

\* what the function does for a caller: returns true, or raises
check_order_rate_limit(caller) ==
  IF caller # NULL THEN "ok"
  ELSE IF RecentAnonymousOrders(orders, now) >= RateLimitCeiling
  THEN "rate_limit_exceeded"
  ELSE "ok"

\* the function is granted to anon and authenticated and is called by no
\* other function and no trigger: a call of it only returns its answer
CheckOrderRateLimit(caller) ==
  /\ Idle
  /\ call' = [op |-> "check_order_rate_limit", pc |-> "done", caller |-> caller,
              result |-> check_order_rate_limit(caller), id |-> 0]
  /\ UNCHANGED <<svc, audit_writable, products, orders, order_items, payments, audit_log, now>>

\* time passes
Tick ==
  /\ now < MaxTime
  /\ now' = now + 1
  /\ UNCHANGED <<svc, audit_writable, products, orders, order_items, payments, audit_log, call>>

----------------------------------------------------------------------------
(* createOrder of the order service: validateCartProducts, then the RPCs     *)
(* create_order, create_payment and get_order_by_id, each awaited            *)

\* validateCartProducts(cartItems).valid: every product of the cart is in the
\* catalog and on sale
ValidateCartProducts(cartItems) ==
  \A n \in 1..Len(cartItems) :
    /\ SelectProduct(cartItems[n].product_id).price # <<>>
    /\ SelectProduct(cartItems[n].product_id).is_available

\* calculateSubtotal, calculateDeliveryTotal: the sums over the cart of the
\* price, and of the delivery charge, that each cart item carries for its
\* product, times the quantity
calculateSubtotal(cartItems) == SumPrices(cartItems)

calculateDeliveryTotal(cartItems) == SumDelivery(cartItems)

\* the status createOrder sends with the payment
PaymentStatusSent(paymentMethod) ==
  IF paymentMethod = "paypal" THEN "completed"
  ELSE IF paymentMethod = "card" THEN "completed"
  ELSE "pending"

\* createOrder is called: an invalid cart throws, else the totals are
\* calculated from the cart and create_order is called with them
ServiceCreateOrder(caller) ==
  /\ svc.pc \in {"idle", "resolved", "rejected"}
  /\ Idle
  /\ Len(orders) < MaxOrders
  /\ \E cartItems \in Carts, paymentMethod \in {"card", "paypal"},
        paymentId \in {NULL, "PAY-1"} :
       LET subtotal == calculateSubtotal(cartItems)
           deliveryTotal == calculateDeliveryTotal(cartItems)
           total == subtotal + deliveryTotal
           started == [pc |-> "apiCreateOrder", caller |-> caller,
                       cartItems |-> cartItems, paymentMethod |-> paymentMethod,
                       paymentId |-> paymentId, total |-> total,
                       orderId |-> 0, error |-> "none"]
       IN  IF ~ValidateCartProducts(cartItems)
           THEN /\ svc' = [started EXCEPT !.pc = "rejected", !.error = "invalid_cart"]
                /\ call' = call
           ELSE /\ svc' = started
                /\ call' = CreateOrderCall(caller, cartItems, subtotal, deliveryTotal, total)
  /\ UNCHANGED <<audit_writable, products, orders, order_items, payments, audit_log, now>>

\* apiCreateOrder threw: createOrder rethrows
ServiceCreateOrderFailed ==
  /\ svc.pc = "apiCreateOrder"
  /\ call.op = "create_order" /\ call.pc = "done" /\ call.result # "ok"
  /\ svc' = [svc EXCEPT !.pc = "rejected", !.error = call.result]
  /\ UNCHANGED <<audit_writable, products, orders, order_items, payments, audit_log, now, call>>

\* apiCreateOrder returned the order id and a payment id was given:
\* create_payment is called; createOrder rethrows its error
ServiceCreatePayment ==
  /\ svc.pc = "apiCreateOrder"
  /\ call.op = "create_order" /\ call.pc = "done" /\ call.result = "ok"
  /\ svc.paymentId # NULL
  /\ LET orderId == call.id
         status == PaymentStatusSent(svc.paymentMethod)
         result == CreatePaymentResult(svc.caller, orderId, svc.total, status)
     IN  /\ CreatePaymentCall(svc.caller, orderId, svc.total, status)
         /\ svc' = IF result = "ok"
                   THEN [svc EXCEPT !.pc = "apiGetOrderById", !.orderId = orderId]
                   ELSE [svc EXCEPT !.pc = "rejected", !.orderId = orderId,
                                    !.error = result]
  /\ UNCHANGED <<audit_writable, products, orders, order_items, audit_log, now>>

\* the created order is fetched; no row throws 'Failed to retrieve created
\* order', else createOrder returns the order
ServiceGetOrder ==
  /\ \/ svc.pc = "apiGetOrderById"
     \/ /\ svc.pc = "apiCreateOrder"
        /\ call.op = "create_order" /\ call.pc = "done" /\ call.result = "ok"
        /\ svc.paymentId = NULL
  /\ LET orderId == IF svc.pc = "apiGetOrderById" THEN svc.orderId ELSE call.id
         fetched == GetOrderByIdCall(svc.caller, orderId)
     IN  /\ call' = fetched
         /\ svc' = IF fetched.rows = <<>>
                   THEN [svc EXCEPT !.pc = "rejected", !.orderId = orderId,
                                    !.error = "failed_to_retrieve"]
                   ELSE [svc EXCEPT !.pc = "resolved", !.orderId = orderId]
  /\ UNCHANGED <<audit_writable, products, orders, order_items, payments, audit_log, now>>

----------------------------------------------------------------------------
(* The system *)

Next ==
  \/ \E caller \in Callers :
       \/ BeginCreateOrder(caller, MaxOrders)
       \/ CreatePayment(caller)
       \/ UpdateOrderStatus(caller)
       \/ UpdatePaymentStatus(caller)
       \/ GetOrderItems(caller)
       \/ GetOrderById(caller)
       \/ GetUserOrders(caller)
       \/ GetAllOrders(caller)
       \/ UpdateProduct(caller)
       \/ DeleteProduct(caller)
  \/ CreateOrderStep

Spec == Init /\ [][Next]_vars

\* the callers that are not elevated
NonElevated == { c \in Callers : ~is_admin(c) }

\* the executions in which only callers that are not elevated call, and call
\* create_order, create_payment, update_order_status and update_payment_status
NextClient ==
  \/ \E caller \in NonElevated :
       \/ BeginCreateOrder(caller, MaxOrders)
       \/ CreatePayment(caller)
       \/ UpdateOrderStatus(caller)
       \/ UpdatePaymentStatus(caller)
  \/ CreateOrderStep

SpecClient == Init /\ [][NextClient]_vars

\* INSERT INTO woolwitch.audit_log starts to fail (the table is locked,
\* dropped or out of space, or a constraint of it rejects the row), or works
\* again
AuditOutage ==
  /\ audit_writable' = ~audit_writable
  /\ UNCHANGED <<svc, products, orders, order_items, payments, audit_log, now, call>>

\* orders being created while the audit log may be out of order
NextAudit ==
  \/ \E caller \in Callers : BeginCreateOrder(caller, MaxOrders)
  \/ CreateOrderStep
  \/ AuditOutage

SpecAudit == Init /\ [][NextAudit]_vars

\* shoppers and admins ordering through the order service while the catalog
\* is edited
NextService ==
  \/ \E caller \in Callers :
       \/ ServiceCreateOrder(caller)
       \/ UpdateProduct(caller)
       \/ DeleteProduct(caller)
  \/ CreateOrderStep
  \/ ServiceCreateOrderFailed
  \/ ServiceCreatePayment
  \/ ServiceGetOrder

SpecService == Init /\ [][NextService]_vars

\* cart lines with quantities that are not positive, next to valid ones
QuantityLines ==
  { [product_id |-> "p1", product_name |-> "Scarf", product_price |-> 2000,
     quantity |-> q, delivery_charge |-> 399] : q \in {-1, 1} }
  \cup
  { [product_id |-> "p2", product_name |-> "Hat", product_price |-> 1550,
     quantity |-> q, delivery_charge |-> 0] : q \in {0, 2} }

QuantityCarts == UNION { [1..n -> QuantityLines] : n \in 1..MaxCartLen }

\* a create_order call for a cart of such lines, the claimed totals worked out
\* with the quantities as they are
BeginCreateOrderQuantities(caller) ==
  /\ Idle
  /\ Len(orders) < MaxOrders
  /\ \E cart \in QuantityCarts, d \in ClaimDeltas :
       call' = CreateOrderCall(caller, cart,
                               ShownSubtotal(cart) + d[1],
                               ShownDelivery(cart) + d[2],
                               ShownSubtotal(cart) + ShownDelivery(cart) + d[3])
  /\ UNCHANGED <<svc, audit_writable, products, orders, order_items, payments, audit_log, now>>

NextQuantity ==
  \/ \E caller \in Callers :
       \/ BeginCreateOrderQuantities(caller)
       \/ UpdateProduct(caller)
  \/ CreateOrderStep

SpecQuantity == Init /\ [][NextQuantity]_vars

\* the anonymous order of one scarf, as create_order persists it at time 0
ScarfLine == CHOOSE l \in CartLines : l.product_id = "p1"

AnonymousScarfOrder ==
  [user_id |-> NULL,
   subtotal |-> InitialProducts["p1"].price * ScarfLine.quantity,
   delivery_total |-> Coalesce(InitialProducts["p1"].delivery_charge, 0) * ScarfLine.quantity,
   total |-> (InitialProducts["p1"].price
              + Coalesce(InitialProducts["p1"].delivery_charge, 0)) * ScarfLine.quantity,
   status |-> "pending",
   created_at |-> 0]

AnonymousScarfItem(k) ==
  [order_id |-> k,
   product_id |-> "p1",
   product_name |-> ScarfLine.product_name,
   product_price |-> InitialProducts["p1"].price,
   quantity |-> ScarfLine.quantity,
   delivery_charge |-> Coalesce(InitialProducts["p1"].delivery_charge, 0)]

\* the shop after a burst of n anonymous orders of one scarf at time 0, n just
\* below the ceiling or at it
InitRate ==
  /\ svc = NoService
  /\ products = InitialProducts
  /\ \E n \in {RateLimitCeiling - 1, RateLimitCeiling} :
       /\ orders = [k \in 1..n |-> AnonymousScarfOrder]
       /\ order_items = [k \in 1..n |-> AnonymousScarfItem(k)]
       /\ audit_log = [k \in 1..n |->
                         [record_id |-> k] @@ AuditRow(AnonymousScarfOrder)]
  /\ payments = <<>>
  /\ audit_writable = TRUE
  /\ now = 0
  /\ call = NoCall

\* shoppers creating orders and the rate-limit function, as time passes
NextRate ==
  \/ \E caller \in NonElevated :
       \/ BeginCreateOrder(caller, RateLimitCeiling + MaxOrders)
       \/ CheckOrderRateLimit(caller)
  \/ CreateOrderStep
  \/ Tick

SpecRate == InitRate /\ [][NextRate]_vars

----------------------------------------------------------------------------
(* Properties *)

\* the committed line items of order k
ItemsOf(k) == SelectSeq(order_items, LAMBDA it : it.order_id = k)

\* two amounts differ by more than 0.01
FartherThanAPenny(a, b) == a - b > 1 \/ b - a > 1

\* a create_order call has returned
CreateOrderDone == call.op = "create_order" /\ call.pc = "done"

\* the step is a statement of the create_order in flight
CreateOrderActs == call.op = "create_order" /\ call.pc # "done" /\ call' # call

NothingPersisted ==
  /\ orders' = orders
  /\ order_items' = order_items
  /\ audit_log' = audit_log
  /\ payments' = payments

\* C1: every order's total is its subtotal plus its delivery total within
\* 0.01, its subtotal is the sum of product_price * quantity over its line
\* items and its delivery total the sum of delivery_charge * quantity over them
C1_OrderTotalsMatchItems ==
  \A k \in 1..Len(orders) :
    /\ ~FartherThanAPenny(orders[k].total, orders[k].subtotal + orders[k].delivery_total)
    /\ orders[k].subtotal = SumPrices(ItemsOf(k))
    /\ orders[k].delivery_total = SumDelivery(ItemsOf(k))

\* C2: once create_order has recomputed the totals of the cart, a claimed
\* subtotal, delivery total or total more than 0.01 away from the recomputed
\* one makes it fail with a total mismatch, and no row is persisted
C2_TamperedTotalsRejected ==
  [][ ( /\ CreateOrderActs
        /\ call.pc = "validate"
        /\ call.i > Len(call.cart)
        /\ \/ FartherThanAPenny(call.p_subtotal, call.v_calculated_subtotal)
           \/ FartherThanAPenny(call.p_delivery_total, call.v_calculated_delivery)
           \/ FartherThanAPenny(call.p_total,
                call.v_calculated_subtotal + call.v_calculated_delivery) )
      => ( /\ call'.pc = "done"
           /\ call'.result = "total_mismatch"
           /\ NothingPersisted ) ]_vars

\* the scarf is priced 20.00 with delivery 3.99, the cart of one scarf claimed
\* a subtotal of 1.00, the call failed with a total mismatch, nothing is stored
C2_Witness ==
  /\ CreateOrderDone
  /\ call.result = "total_mismatch"
  /\ products["p1"].price = 2000 /\ products["p1"].delivery_charge = <<399>>
  /\ Len(call.cart) = 1 /\ call.cart[1].product_id = "p1"
  /\ call.p_subtotal = 100
  /\ orders = <<>> /\ order_items = <<>>

\* C3: the totals stored on a created order are the ones create_order
\* calculated from the catalog, also when the claimed ones were within 0.01 of
\* them and not equal
C3_CalculatedTotalsStored ==
  (CreateOrderDone /\ call.result = "ok") =>
     /\ call.id \in 1..Len(orders)
     /\ orders[call.id].subtotal = call.v_calculated_subtotal
     /\ orders[call.id].delivery_total = call.v_calculated_delivery
     /\ orders[call.id].total = call.v_calculated_subtotal + call.v_calculated_delivery

\* an order was created from claims that were within the tolerance and differ
\* from what was calculated and stored
C3_Witness ==
  /\ CreateOrderDone
  /\ call.result = "ok"
  /\ call.p_subtotal # orders[call.id].subtotal
  /\ call.p_delivery_total # orders[call.id].delivery_total

\* C4: a line item is written with the price and the delivery charge (NULL as
\* 0) that its product has in the catalog when create_order reads it, and is
\* committed as written; the client's figures are not used
C4_CatalogPricesPersisted ==
  [][ /\ ( CreateOrderActs /\ call.pc = "items" /\ call'.pc = "items" )
         => LET line == call.cart[call.i]
                it == call'.items[Len(call'.items)]
            IN  /\ Len(call'.items) = Len(call.items) + 1
                /\ it.product_id = line.product_id
                /\ it.product_price = products[line.product_id].price
                /\ it.delivery_charge =
                     Coalesce(products[line.product_id].delivery_charge, 0)
      /\ ( CreateOrderActs /\ call'.result = "ok" )
         => /\ Len(order_items') = Len(order_items) + Len(call.items)
            /\ \A k \in 1..Len(call.items) :
                 LET it == order_items'[Len(order_items) + k] IN
                   /\ it.order_id = call'.id
                   /\ it.product_price = call.items[k].product_price
                   /\ it.delivery_charge = call.items[k].delivery_charge ]_vars

\* an order was created whose line item carries another price and another
\* delivery charge than the client submitted for it
C4_Witness ==
  /\ CreateOrderDone
  /\ call.result = "ok"
  /\ \E k \in 1..Len(order_items) :
       /\ order_items[k].order_id = call.id
       /\ \E n \in 1..Len(call.cart) :
            /\ call.cart[n].product_id = order_items[k].product_id
            /\ call.cart[n].product_price # order_items[k].product_price
            /\ call.cart[n].delivery_charge # order_items[k].delivery_charge

\* C5: when the validation loop of create_order reads, for a line of the
\* cart, a product that does not exist or is not available, the call fails
\* with product not found or product unavailable and no row is persisted
C5_MissingOrUnavailableRejected ==
  [][ ( /\ CreateOrderActs
        /\ call.pc = "validate"
        /\ call.i <= Len(call.cart) )
      => LET pid == call.cart[call.i].product_id
             missing == pid \notin ProductIds \/ products[pid] = NoRow
         IN  /\ missing =>
                  /\ call'.pc = "done" /\ call'.result = "product_not_found"
                  /\ NothingPersisted
             /\ (~missing /\ ~products[pid].is_available) =>
                  /\ call'.pc = "done" /\ call'.result = "product_unavailable"
                  /\ NothingPersisted ]_vars

\* a cart of two lines with exact totals, whose first line is valid and whose
\* second line is a product withdrawn from sale, was rejected
C5_Witness ==
  /\ CreateOrderDone
  /\ call.result = "product_unavailable"
  /\ Len(call.cart) = 2 /\ call.i = 2
  /\ ~products[call.cart[2].product_id].is_available
  /\ call.p_subtotal = call.v_calculated_subtotal
       + products[call.cart[2].product_id].price * call.cart[2].quantity
  /\ orders = <<>> /\ order_items = <<>>

\* C6: create_order persists an order and all the lines of its cart together
\* or nothing: a failure after the order row was inserted leaves no order and
\* no line item, no row is visible before the call returns, and an order row
\* appears only together with one line item per cart line
C6_AllOrNothing ==
  [][ /\ ( CreateOrderActs /\ call.pc = "items" /\ call'.result # "ok" )
         => NothingPersisted
      /\ Len(orders') # Len(orders)
         => /\ CreateOrderActs /\ call'.pc = "done" /\ call'.result = "ok"
            /\ Len(orders') = Len(orders) + 1
            /\ call'.id = Len(orders')
            /\ Len(order_items') = Len(order_items) + Len(call.cart)
            /\ \A n \in 1..Len(call.cart) :
                 LET it == order_items'[Len(order_items) + n] IN
                   /\ it.order_id = call'.id
                   /\ it.product_id = call.cart[n].product_id
                   /\ it.quantity = call.cart[n].quantity
      /\ Len(order_items') # Len(order_items)
         => Len(orders') # Len(orders) ]_vars

\* the insertion of the second line item of a cart failed, after the order row
\* and the first line item had been inserted, and no order and no item exists
C6_Witness ==
  /\ CreateOrderDone
  /\ call.result = "constraint_violation"
  /\ Len(call.cart) = 2 /\ call.i = 2
  /\ orders = <<>> /\ order_items = <<>>

\* C7: a create_order call made while the catalog is as deployed, for
\* existing available products in positive quantities, with claimed totals
\* within 0.01 of the catalog's, succeeds; the order it persists has the
\* caller's identity as user_id, null for the anonymous caller, and status
\* pending
C7_AnonymousAndOwnOrders ==
  /\ ( /\ CreateOrderDone
       /\ products = InitialProducts
       /\ \A n \in 1..Len(call.cart) :
            /\ call.cart[n].product_id \in ProductIds
            /\ products[call.cart[n].product_id].is_available
            /\ call.cart[n].quantity > 0
       /\ ~FartherThanAPenny(call.p_subtotal, ShownSubtotal(call.cart))
       /\ ~FartherThanAPenny(call.p_delivery_total, ShownDelivery(call.cart))
       /\ ~FartherThanAPenny(call.p_total,
                             ShownSubtotal(call.cart) + ShownDelivery(call.cart)) )
     => call.result = "ok"
  /\ ( CreateOrderDone /\ call.result = "ok" )
     => /\ call.id \in 1..Len(orders)
        /\ orders[call.id].user_id = call.caller
        /\ orders[call.id].status = "pending"

\* the anonymous caller created an order for a cart of two lines: its user_id
\* is null and its status pending
C7_Witness ==
  /\ CreateOrderDone
  /\ call.caller = NULL
  /\ call.result = "ok"
  /\ Len(call.cart) = 2
  /\ orders[call.id].user_id = NULL
  /\ orders[call.id].status = "pending"

\* C8: no anonymous order is persisted while the anonymous orders created in
\* the hour before it number the ceiling or more
C8_AnonymousOrdersRateLimited ==
  \A k \in 1..Len(orders) :
    orders[k].user_id = NULL =>
      RecentAnonymousOrders(SubSeq(orders, 1, k - 1), orders[k].created_at)
        < RateLimitCeiling

\* C9: while only callers that are not elevated call, every order and every
\* payment has status pending
C9_ClientsLeaveEverythingPending ==
  /\ \A k \in 1..Len(orders) : orders[k].status = "pending"
  /\ \A k \in 1..Len(payments) : payments[k].status = "pending"

\* a caller that is not elevated asked to complete an existing payment, and
\* the payment and its order are pending
C9_Witness ==
  /\ call.op = "update_payment_status"
  /\ ~is_admin(call.caller)
  /\ call.p_status = "completed"
  /\ call.id \in 1..Len(payments)
  /\ payments[call.id].status = "pending"
  /\ orders[payments[call.id].order_id].status = "pending"

\* C10: a create_payment call by a caller that is not elevated, for an
\* existing order that is the caller's own or anonymous, with an amount within
\* 0.01 of the order's total, fails as forbidden and persists nothing when the
\* requested status is not pending, and succeeds with a pending payment of the
\* order when it is
C10_ClientPaymentsOnlyPending ==
  [][ ( /\ call'.op = "create_payment"
        /\ call' # call
        /\ ~is_admin(call'.caller)
        /\ call'.p_order_id \in 1..Len(orders)
        /\ \/ orders[call'.p_order_id].user_id = call'.caller
           \/ orders[call'.p_order_id].user_id = NULL
        /\ ~FartherThanAPenny(call'.p_amount, orders[call'.p_order_id].total) )
      => IF call'.p_status # "pending"
         THEN /\ call'.result = "forbidden"
              /\ payments' = payments
         ELSE /\ call'.result = "ok"
              /\ Len(payments') = Len(payments) + 1
              /\ payments'[Len(payments')].order_id = call'.p_order_id
              /\ payments'[Len(payments')].status = "pending" ]_vars

\* a caller that is not elevated asked for a completed payment of an order
\* with the right amount and was refused; there is no payment
C10_Witness ==
  /\ call.op = "create_payment"
  /\ ~is_admin(call.caller)
  /\ call.p_status = "completed"
  /\ call.p_order_id \in 1..Len(orders)
  /\ call.p_amount = orders[call.p_order_id].total
  /\ call.result = "forbidden"
  /\ payments = <<>>

\* a create_payment call is made in the step
CreatePaymentActs == call'.op = "create_payment" /\ call' # call

\* C11: every payment belongs to an order and its amount is that order's
\* stored total, also when the submitted amount was 0.01 away from it
C11_PaymentAmountIsOrderTotal ==
  \A k \in 1..Len(payments) :
    /\ payments[k].order_id \in 1..Len(orders)
    /\ payments[k].amount = orders[payments[k].order_id].total

\* a payment was created from a submitted amount that is not the order's
\* total, and its amount is the order's total
C11_Witness ==
  /\ call.op = "create_payment"
  /\ call.result = "ok"
  /\ call.p_amount # orders[call.p_order_id].total
  /\ payments[call.id].amount = orders[call.p_order_id].total

\* C12 as stated: a create_payment call for an existing order with an amount
\* more than 0.01 from the order's total fails with the amount-mismatch error
\* and persists no payment, whoever calls
C12_FarAmountIsAmountMismatch ==
  [][ ( /\ CreatePaymentActs
        /\ call'.p_order_id \in 1..Len(orders)
        /\ FartherThanAPenny(call'.p_amount, orders[call'.p_order_id].total) )
      => ( /\ call'.result = "amount_mismatch"
           /\ payments' = payments ) ]_vars

\* C12: a create_payment call for an existing order with an amount more than
\* 0.01 from the order's total persists no payment, whoever calls; it fails
\* with access denied when the caller is signed in, is not an admin and the
\* order belongs to someone else, and with the amount-mismatch error otherwise
C12_FarAmountRejected ==
  [][ ( /\ CreatePaymentActs
        /\ call'.p_order_id \in 1..Len(orders)
        /\ FartherThanAPenny(call'.p_amount, orders[call'.p_order_id].total) )
      => LET owner == orders[call'.p_order_id].user_id
             stranger == /\ call'.caller # NULL
                         /\ ~is_admin(call'.caller)
                         /\ owner # NULL
                         /\ owner # call'.caller
         IN  /\ payments' = payments
             /\ call'.result = IF stranger THEN "access_denied"
                               ELSE "amount_mismatch" ]_vars

\* an admin asked for a payment of an order with an amount 0.02 below its
\* total and was refused with the amount-mismatch error; there is no payment
C12_Witness ==
  /\ call.op = "create_payment"
  /\ is_admin(call.caller)
  /\ call.p_order_id \in 1..Len(orders)
  /\ call.p_amount = orders[call.p_order_id].total - 2
  /\ call.result = "amount_mismatch"
  /\ payments = <<>>

\* C13: a payment is persisted for an order only when the caller owns the
\* order, the order is anonymous or the caller is an admin; any other caller
\* of create_payment for an existing order gets access denied
C13_PaymentNeedsAccessToOrder ==
  [][ ( /\ CreatePaymentActs
        /\ call'.p_order_id \in 1..Len(orders) )
      => LET owner == orders[call'.p_order_id].user_id
             allowed == \/ owner = call'.caller
                        \/ owner = NULL
                        \/ is_admin(call'.caller)
         IN  /\ payments' # payments => allowed
             /\ ~allowed => call'.result = "access_denied" ]_vars

C15_StatusUpdatesAdminOnly ==
  [][ ( /\ call'.op \in {"update_order_status", "update_payment_status"}
        /\ call' # call
        /\ ~is_admin(call'.caller) )
      => ( /\ call'.result = "forbidden"
           /\ orders' = orders
           /\ payments' = payments ) ]_vars

\* the signed-in owner of a pending order asked to cancel it and was refused;
\* the order is pending
C15_Witness ==
  /\ call.op = "update_order_status"
  /\ call.caller # NULL
  /\ ~is_admin(call.caller)
  /\ call.id \in 1..Len(orders)
  /\ orders[call.id].user_id = call.caller
  /\ call.p_status = "cancelled"
  /\ call.result = "forbidden"
  /\ orders[call.id].status = "pending"

\* the edges of the order status machine
OrderEdges ==
  { <<"pending", "paid">>, <<"paid", "shipped">>, <<"shipped", "delivered">>,
    <<"pending", "cancelled">>, <<"paid", "cancelled">> }

\* C16: every change of an order's status follows an edge of the order status
\* machine
C16_OrderStatusFollowsEdges ==
  [][ \A k \in 1..Len(orders) :
        orders'[k].status # orders[k].status
          => <<orders[k].status, orders'[k].status>> \in OrderEdges ]_vars

\* the edges of the payment status machine
PaymentEdges ==
  { <<"pending", "completed">>, <<"pending", "failed">>,
    <<"completed", "refunded">> }

\* C17: every change of a payment's status follows an edge of the payment
\* status machine, so a failed or refunded payment never changes
C17_PaymentStatusFollowsEdges ==
  [][ \A k \in 1..Len(payments) :
        payments'[k].status # payments[k].status
          => <<payments[k].status, payments'[k].status>> \in PaymentEdges ]_vars

\* the audit entries of the creation of order k
OrderCreatedEntries(log, k) ==
  { j \in 1..Len(log) :
      log[j].event_type = "order_created" /\ log[j].record_id = k }

\* C18: the audit log changes only when a create_order call succeeds, and then
\* by one order_created entry for the new order, with the order's user_id and
\* the anonymous flag set exactly when that user_id is null; every order has
\* exactly one such entry
C18_OneAuditEntryPerCreatedOrder ==
  [][ /\ audit_log' # audit_log
         => ( CreateOrderActs /\ call'.pc = "done" /\ call'.result = "ok" )
      /\ ( CreateOrderActs /\ call'.pc = "done" /\ call'.result # "ok" )
         => audit_log' = audit_log
      /\ ( CreateOrderActs /\ call'.pc = "done" /\ call'.result = "ok" )
         => /\ Len(audit_log') = Len(audit_log) + 1
            /\ SubSeq(audit_log', 1, Len(audit_log)) = audit_log
            /\ LET e == audit_log'[Len(audit_log')]
                   o == orders'[call'.id]
               IN  /\ e.event_type = "order_created"
                   /\ e.record_id = call'.id
                   /\ e.user_id = o.user_id
                   /\ e.is_anonymous = (o.user_id = NULL)
            /\ \A k \in 1..Len(orders') :
                 Cardinality(OrderCreatedEntries(audit_log', k)) = 1 ]_vars

\* a signed-in caller created an order; the one audit entry names the order
\* and the caller and is not flagged anonymous
C18_Witness ==
  /\ CreateOrderDone
  /\ call.result = "ok"
  /\ call.caller # NULL
  /\ Len(audit_log) = 1
  /\ audit_log[1].record_id = call.id
  /\ audit_log[1].user_id = call.caller
  /\ audit_log[1].is_anonymous = FALSE

\* C19: no create_order call fails because the audit entry could not be
\* written
C19_AuditFailureDoesNotFailOrder ==
  CreateOrderDone => call.result # "audit_failure"

\* C20: a get_order_items call for an order by the identity that created it
\* (the anonymous caller for an anonymous order) succeeds, and the prices times
\* quantities of the items it returns add up to the order's subtotal
C20_CreatorReadsItemsBack ==
  ( /\ call.op = "get_order_items"
    /\ call.id \in 1..Len(orders)
    /\ orders[call.id].user_id = call.caller )
  => /\ call.result = "ok"
     /\ SumPrices(call.rows) = orders[call.id].subtotal

C22_PriceChangeBetweenReadsUndetected ==
  [][ /\ ( /\ CreateOrderActs
           /\ call.pc = "items"
           /\ call.i <= Len(call.cart)
           /\ call.cart[call.i].product_id \in ProductIds
           /\ products[call.cart[call.i].product_id] # NoRow
           /\ call.cart[call.i].quantity > 0 )
         => /\ call'.pc = "items"
            /\ call'.order = call.order
            /\ call'.items[Len(call'.items)].product_price =
                 products[call.cart[call.i].product_id].price
      /\ ( CreateOrderActs /\ call.pc = "items" /\ call.i > Len(call.cart) )
         => /\ call'.result = "ok"
            /\ orders'[call'.id].subtotal = call.v_calculated_subtotal
            /\ orders'[call'.id].delivery_total = call.v_calculated_delivery ]_vars

\* an order was created whose subtotal is the one calculated in the validation
\* loop and is not the sum over its line items, which carry the prices the
\* products have now
C22_Witness ==
  /\ CreateOrderDone
  /\ call.result = "ok"
  /\ orders[call.id].subtotal = call.v_calculated_subtotal
  /\ orders[call.id].subtotal # SumPrices(ItemsOf(call.id))
  /\ \A j \in 1..Len(order_items) :
       /\ order_items[j].product_id \in ProductIds
       /\ order_items[j].product_price = products[order_items[j].product_id].price

\* C23: check_order_rate_limit allows every signed-in caller; for the anonymous
\* caller it raises exactly when the orders without a user created less than
\* an hour ago number the ceiling or more
C23_RateLimitFunctionExact ==
  [][ ( call'.op = "check_order_rate_limit" /\ call' # call )
      => LET counted == { k \in 1..Len(orders) :
                            /\ orders[k].user_id = NULL
                            /\ now - orders[k].created_at < OneHour }
         IN  call'.result =
               IF call'.caller # NULL THEN "ok"
               ELSE IF Cardinality(counted) >= RateLimitCeiling
               THEN "rate_limit_exceeded"
               ELSE "ok" ]_vars

\* the anonymous caller was refused while exactly the ceiling of anonymous
\* orders, and one order of a signed-in user, were less than an hour old
C23_Witness ==
  /\ call.op = "check_order_rate_limit"
  /\ call.caller = NULL
  /\ call.result = "rate_limit_exceeded"
  /\ Cardinality({ k \in 1..Len(orders) : orders[k].user_id = NULL }) = RateLimitCeiling
  /\ Len(orders) = RateLimitCeiling + 1
  /\ now < OneHour

\* the caller is the signed-in owner of the order, or an admin
OwnerOrAdmin(caller, user_id) ==
  (caller # NULL /\ user_id = caller) \/ is_admin(caller)

\* C24: get_order_by_id and get_user_orders return only orders of which the
\* caller is the owner or an admin, get_order_items succeeds only for such an
\* order, and get_all_orders fails and returns nothing for a caller that is
\* not an admin
C24_OrdersReadByOwnerOrAdmin ==
  /\ call.op \in {"get_order_by_id", "get_user_orders"}
     => \A n \in 1..Len(call.rows) : OwnerOrAdmin(call.caller, call.rows[n].user_id)
  /\ ( call.op = "get_order_items" /\ call.result = "ok" )
     => OwnerOrAdmin(call.caller, orders[call.id].user_id)
  /\ ( call.op = "get_order_items" /\ call.result # "ok" )
     => call.rows = <<>>
  /\ ( call.op = "get_all_orders" /\ ~is_admin(call.caller) )
     => ( call.result = "forbidden" /\ call.rows = <<>> )

\* a signed-in user who is not an admin asked for the items of an existing
\* order with line items that is not the user's own, and got none
C24_Witness ==
  /\ call.op = "get_order_items"
  /\ call.caller # NULL
  /\ ~is_admin(call.caller)
  /\ call.id \in 1..Len(orders)
  /\ orders[call.id].user_id # call.caller
  /\ ItemsOf(call.id) # <<>>
  /\ call.result = "not_found_or_denied"
  /\ call.rows = <<>>

\* C25: create_payment reports the first failure in the order: order not
\* found, access denied (the caller neither owns the order, nor is the order
\* anonymous, nor is the caller an admin), amount mismatch, forbidden status;
\* a failing call persists no payment
C25_PaymentChecksInOrder ==
  [][ CreatePaymentActs
      => LET c == call'
             found == c.p_order_id \in 1..Len(orders)
             o == orders[c.p_order_id]
             expected ==
               IF ~found THEN "order_not_found"
               ELSE IF ~( o.user_id = c.caller \/ o.user_id = NULL \/ is_admin(c.caller) )
               THEN "access_denied"
               ELSE IF FartherThanAPenny(c.p_amount, o.total) THEN "amount_mismatch"
               ELSE IF c.p_status # "pending" /\ ~is_admin(c.caller) THEN "forbidden"
               ELSE "ok"
         IN  /\ c.result = expected
             /\ c.result # "ok" => payments' = payments ]_vars

\* C26: every persisted line item has a quantity of at least 1, and a
\* create_order call whose cart has a line with a quantity of zero or less ends
\* in failure with nothing persisted
C26_QuantityAtLeastOne ==
  [][ /\ \A j \in 1..Len(order_items') : order_items'[j].quantity >= 1
      /\ ( /\ CreateOrderActs
           /\ call'.pc = "done"
           /\ \E n \in 1..Len(call.cart) : call.cart[n].quantity <= 0 )
         => ( call'.result # "ok" /\ NothingPersisted ) ]_vars

\* a cart of two hats and minus one scarf, claimed with exactly the totals
\* calculated for it, which are lower than those of the hats alone, passed the
\* validation, failed at the insertion of the scarf line, and nothing is stored
C26_Witness ==
  /\ CreateOrderDone
  /\ call.result = "constraint_violation"
  /\ Len(call.cart) = 2
  /\ call.cart[1].quantity = 2 /\ call.cart[2].quantity = -1
  /\ call.p_subtotal = call.v_calculated_subtotal
  /\ call.p_total = call.v_calculated_subtotal + call.v_calculated_delivery
  /\ call.v_calculated_subtotal > 0
  /\ call.v_calculated_subtotal < ShownSubtotal(<<call.cart[1]>>)
  /\ orders = <<>> /\ order_items = <<>>

\* C29: a create_payment call, successful or failed, leaves every order as it
\* was
C29_CreatePaymentLeavesOrders ==
  [][ CreatePaymentActs => orders' = orders ]_vars

\* an admin created a payment with status completed for an order, and the
\* order is pending
C29_Witness ==
  /\ call.op = "create_payment"
  /\ is_admin(call.caller)
  /\ call.p_status = "completed"
  /\ call.result = "ok"
  /\ payments[call.id].status = "completed"
  /\ orders[call.p_order_id].status = "pending"

\* C30: every persisted order has at least one line item
C30_OrdersHaveItems ==
  \A k \in 1..Len(orders) : ItemsOf(k) # <<>>

\* C27: a createOrder call of the order service by a caller that is not
\* elevated, with a cart of available products in positive quantities that
\* carries their prices and delivery charges as the catalog has them, a
\* payment method of card or paypal and a payment id, made while the catalog
\* stays as deployed, resolves, and then the order, its line items and a
\* payment of that order are persisted
C27_ServiceCreatesOrderAndPayment ==
  ( /\ svc.pc \in {"resolved", "rejected"}
    /\ ~is_admin(svc.caller)
    /\ products = InitialProducts
    /\ svc.cartItems # <<>>
    /\ \A n \in 1..Len(svc.cartItems) :
         /\ svc.cartItems[n].product_id \in ProductIds
         /\ products[svc.cartItems[n].product_id].is_available
         /\ svc.cartItems[n].product_price = products[svc.cartItems[n].product_id].price
         /\ svc.cartItems[n].delivery_charge =
              Coalesce(products[svc.cartItems[n].product_id].delivery_charge, 0)
         /\ svc.cartItems[n].quantity > 0
    /\ svc.paymentMethod \in {"card", "paypal"}
    /\ svc.paymentId # NULL )
  => /\ svc.pc = "resolved"
     /\ svc.orderId \in 1..Len(orders)
     /\ Len(ItemsOf(svc.orderId)) = Len(svc.cartItems)
     /\ \E k \in 1..Len(payments) : payments[k].order_id = svc.orderId

\* C28: when a createOrder call of the order service has rejected, no order
\* created by that call is persisted
C28_ServiceAllOrNothing ==
  svc.pc = "rejected" => svc.orderId \notin 1..Len(orders)

====
